---- MODULE Spec2Model ----
(***************************************************************************)
(* Model of the Mellow Signs upload backend (src/server.js).               *)
(*                                                                         *)
(* The model covers the POST /api/upload route handler and the functions   *)
(* it calls: isValidEmail, generateOrderId, findOrCreateCustomer,          *)
(* uploadToImageKit and createOrder.  A request in the model is one that   *)
(* express has handed to the route handler, i.e. one that passed the rate  *)
(* limiter and the multipart parser mounted in front of it.                *)
(*                                                                         *)
(* Strings are sequences of one-character strings.  A value that may be    *)
(* undefined/null in JavaScript is a sequence of length at most one:       *)
(* <<>> is undefined/null and <<v>> is the value v.                        *)
(***************************************************************************)
EXTENDS Integers, Sequences, FiniteSets, TLC

\* ---------------------------------------------------------------- bounds
MaxFiles == 2
MaxEmailLen == 5
MaxClock == 1
MaxRand == 1
MaxNameLen == 2

\* ------------------------------------------------------- values and sets
\* the requests the server may be handling at the same time; each runs its
\* own invocation of the handler with its own locals
Reqs == {1, 2}

Undefined == <<>>
Some(v) == <<v>>

\* JavaScript truthiness of an optional string: undefined and "" are falsy
Falsy(f) == f = Undefined \/ f[1] = <<>>

EmailChars == {"a", "@", ".", " "}
Whitespace == {" "}

StringsUpTo(n) == UNION {[1..k -> EmailChars] : k \in 0..n}

AuthHeaders == {"absent", "wrong", "valid"}

Causes == {"ETIMEDOUT", "QUOTA"}

\* ------------------------------------------------------------ isValidEmail
\* [^\s@]+ : a non-empty run without whitespace and without "@"
NoSpaceNoAt(s) == Len(s) > 0 /\ \A k \in 1..Len(s) : s[k] \notin Whitespace \cup {"@"}

isValidEmail_noTld(email) ==
    \E i \in 1..Len(email) :
        /\ NoSpaceNoAt(SubSeq(email, 1, i - 1))
        /\ email[i] = "@"
        /\ NoSpaceNoAt(SubSeq(email, i + 1, Len(email)))

\* /^[^\s@]+@[^\s@]+\.[^\s@]+$/.test(email)
isValidEmail(email) ==
    \E i \in 1..Len(email) : \E j \in 1..Len(email) :
        /\ i < j
        /\ NoSpaceNoAt(SubSeq(email, 1, i - 1))
        /\ email[i] = "@"
        /\ NoSpaceNoAt(SubSeq(email, i + 1, j - 1))
        /\ email[j] = "."
        /\ NoSpaceNoAt(SubSeq(email, j + 1, Len(email)))

\* ------------------------------------------------------------- the state
VARIABLES
    imagekit,       \* TRUE iff the ImageKit client was constructed
    base,           \* TRUE iff the Airtable base was constructed
    now,            \* last value returned by Date.now(), in ms since start
    clientes,       \* Airtable table 'Clientes': sequence of records
    pedidos,        \* Airtable table 'Pedidos': sequence of records
    stored,         \* objects held by ImageKit: set of file records
    req,            \* req[r]: the request handed to the handler, or <<>>
    pc,             \* pc[r]: where the handler of request r is suspended
    customer,       \* handler local 'customer' (null or a record)
    orderId,        \* handler local 'orderId' (null or an id)
    uploads,        \* uploads[r][i]: state of the i-th upload promise
    uploadedFiles,  \* handler local 'uploadedFiles'
    order,          \* createOrder local 'orderId' while the create is pending
    res,            \* res[r]: the response sent, or <<>>
    calls,          \* calls[r][k]: provider calls of kind k issued for r
    failures,       \* failures[r]: provider calls of r that failed
    log,            \* log[r]: warn/error lines written by the handler
    statusReq       \* the GET /api/status/:orderId request and its handler

vars == <<imagekit, base, now, clientes, pedidos, stored, req, pc, customer,
          orderId, uploads, uploadedFiles, order, res, calls, failures, log,
          statusReq>>

CallKinds == {"select", "createCustomer", "upload", "createOrder", "delete", "notify"}

SampleEmail == <<"a", "@", "a", ".", "a">>
SampleName == <<"a">>

Init ==
    /\ imagekit \in BOOLEAN
    /\ base \in BOOLEAN
    /\ now = 0
    /\ clientes \in {<<>>, <<[Email |-> SampleEmail, Nome |-> SampleName]>>}
    /\ pedidos = <<>>
    /\ stored = {}
    /\ req = [r \in Reqs |-> <<>>]
    /\ pc = [r \in Reqs |-> "idle"]
    /\ customer = [r \in Reqs |-> Undefined]
    /\ orderId = [r \in Reqs |-> Undefined]
    /\ uploads = [r \in Reqs |-> <<>>]
    /\ uploadedFiles = [r \in Reqs |-> <<>>]
    /\ order = [r \in Reqs |-> Undefined]
    /\ res = [r \in Reqs |-> <<>>]
    /\ calls = [r \in Reqs |-> [k \in CallKinds |-> 0]]
    /\ failures = [r \in Reqs |-> 0]
    /\ log = [r \in Reqs |-> <<>>]
    /\ statusReq = [pc |-> "idle", orderId |-> Undefined, res |-> Undefined,
                    error |-> Undefined]

\* ------------------------------------------------------- small utilities
Min(a, b) == IF a < b THEN a ELSE b

Bump(c, r, k, n) == [c EXCEPT ![r][k] = @ + n]

FileLists(names) == UNION {[1..n -> names] : n \in 0..MaxFiles}

Requests(auths, nomes, emails, names) ==
    [auth : auths, nome : nomes, email : emails, files : FileLists(names)]

\* ------------------------------------------------------- generateOrderId
\* `MS-${Date.now()}-${Math.random()...}`: the values one call may return
\* when Date.now() last returned t.  The clock does not go back and is
\* read once per call.
OrderIdOf(ts, rnd) == <<"MS", ts, rnd>>

generateOrderId(t) ==
    {OrderIdOf(ts, rnd) : ts \in t..Min(t + 1, MaxClock), rnd \in 0..MaxRand}

Timestamp(id) == id[2]

\* the text of an id, `MS-${Date.now()}-${suffix}`, character by character
DecimalDigits == <<"0", "1", "2", "3", "4", "5", "6", "7", "8", "9">>

Base36Digits ==
    DecimalDigits \o <<"A", "B", "C", "D", "E", "F", "G", "H", "I", "J", "K",
                       "L", "M", "N", "O", "P", "Q", "R", "S", "T", "U", "V",
                       "W", "X", "Y", "Z">>

Radix == 36
SuffixLength == 9

RECURSIVE Decimal(_, _)
\* the last 'width' decimal digits of n
Decimal(n, width) ==
    IF width = 0 THEN <<>>
    ELSE Decimal(n \div 10, width - 1) \o <<DecimalDigits[(n % 10) + 1]>>

\* Date.now() as text: the clock reads 1729353600000 at start and ts
\* milliseconds more at the call (ts < 10000)
DateNowText(ts) ==
    <<"1", "7", "2", "9", "3", "5", "3", "6", "0">> \o Decimal(ts, 4)

RECURSIVE Fraction36(_, _, _)
\* the first k digits of num/den in base 36, stopping where it terminates
Fraction36(num, den, k) ==
    IF num = 0 \/ k = 0 THEN <<>>
    ELSE <<Base36Digits[((num * Radix) \div den) + 1]>>
         \o Fraction36((num * Radix) % den, den, k - 1)

\* Math.random().toString(36).substr(2, 9).toUpperCase(), for the draw
\* rnd / (MaxRand + 1) of Math.random()
RandomSuffix(rnd) == Fraction36(rnd, MaxRand + 1, SuffixLength)

OrderIdText(id) ==
    <<"M", "S", "-">> \o DateNowText(id[2]) \o <<"-">> \o RandomSuffix(id[3])

\* ------------------------------------------------------ sanitizeFileName
SafeChars == {"a", ".", "-"}
SubstringLimit == 100

RECURSIVE Squeeze(_)
\* .replace(/_+/g, '_'): every run of "_" becomes one "_".  Computed by
\* halves, joining two squeezed halves at a run that spans the cut.
Squeeze(s) ==
    IF Len(s) < 2 THEN s
    ELSE LET half == Len(s) \div 2
             left == Squeeze(SubSeq(s, 1, half))
             right == Squeeze(SubSeq(s, half + 1, Len(s)))
         IN IF left[Len(left)] = "_" /\ right[1] = "_"
            THEN left \o Tail(right)
            ELSE left \o right

\* as sanitizeFileName, with the two replace calls in the other order
sanitizeFileName_swapped(filename) ==
    LET merged == Squeeze(filename)
        replaced == [k \in 1..Len(merged) |->
                        IF merged[k] \in SafeChars THEN merged[k] ELSE "_"]
    IN SubSeq(replaced, 1, Min(Len(replaced), SubstringLimit))

sanitizeFileName(filename) ==
    LET replaced == [k \in 1..Len(filename) |->
                        IF filename[k] \in SafeChars THEN filename[k] ELSE "_"]
        merged == Squeeze(replaced)
    IN SubSeq(merged, 1, Min(Len(merged), SubstringLimit))

\* ------------------------------------------------------------- responses
NA == <<"N/A", 0, 0>>

Json503 ==
    [status |-> 503, success |-> FALSE, code |-> "SERVICES_NOT_CONFIGURED"]

Json400(code) == [status |-> 400, success |-> FALSE, code |-> code]

Json500_null(message, id) ==
    [status |-> 500, success |-> FALSE, error |-> message,
     code |-> "INTERNAL_SERVER_ERROR",
     orderId |-> IF id = Undefined THEN <<"null", 0, 0>> ELSE id[1]]

Json500(message, id) ==
    [status |-> 500, success |-> FALSE, error |-> message,
     code |-> "INTERNAL_SERVER_ERROR",
     orderId |-> IF id = Undefined THEN NA ELSE id[1]]

Json200_miscount(ord, cust, files) ==
    [status |-> 200, success |-> TRUE,
     data |-> [orderId |-> ord.orderId, recordId |-> ord.recordId,
               customer |-> cust.id, files |-> files,
               filesCount |-> Len(files) - 1]]

Json200(ord, cust, files) ==
    [status |-> 200, success |-> TRUE,
     data |-> [orderId |-> ord.orderId, recordId |-> ord.recordId,
               customer |-> cust.id, files |-> files,
               filesCount |-> Len(files)]]

\* ------------------------------------------------ the handler, by stages
\* what every action that leaves the tables and the object store alone keeps
Providers == <<clientes, pedidos, stored>>
Config == <<imagekit, base>>

\* return res.status(..).json(..) before anything was awaited
Reply(r, q, json) ==
    /\ req' = [req EXCEPT ![r] = Some(q)]
    /\ res' = [res EXCEPT ![r] = Some(json)]
    /\ pc' = [pc EXCEPT ![r] = "done"]
    /\ UNCHANGED <<Config, statusReq, Providers, now, customer, orderId, uploads,
                   uploadedFiles, order, calls, failures, log>>

\* the handler's checks of req.body and req.files, in the order it makes
\* them; "OK" when none of them returns
Validate_either(q) ==
    IF Falsy(q.nome) /\ Falsy(q.email) THEN "MISSING_REQUIRED_FIELDS"
    ELSE IF Falsy(q.email) \/ ~isValidEmail(q.email[1]) THEN "INVALID_EMAIL"
    ELSE IF Len(q.files) = 0 THEN "NO_FILES"
    ELSE "OK"

Validate_noFiles(q) ==
    IF Falsy(q.nome) \/ Falsy(q.email) THEN "MISSING_REQUIRED_FIELDS"
    ELSE IF ~isValidEmail(q.email[1]) THEN "INVALID_EMAIL"
    ELSE "OK"

Validate(q) ==
    IF Falsy(q.nome) \/ Falsy(q.email) THEN "MISSING_REQUIRED_FIELDS"
    ELSE IF ~isValidEmail(q.email[1]) THEN "INVALID_EMAIL"
    ELSE IF Len(q.files) = 0 THEN "NO_FILES"
    ELSE "OK"

\* app.post('/api/upload', ...): the handler up to its first await
Submit(r, q) ==
    /\ pc[r] = "idle"
    /\ IF ~imagekit \/ ~base THEN Reply(r, q, Json503)
       ELSE IF Validate(q) # "OK" THEN Reply(r, q, Json400(Validate(q)))
       ELSE \* findOrCreateCustomer: base('Clientes').select(...).firstPage()
            /\ req' = [req EXCEPT ![r] = Some(q)]
            /\ calls' = Bump(calls, r, "select", 1)
            /\ pc' = [pc EXCEPT ![r] = "selecting"]
            /\ UNCHANGED <<Config, statusReq, Providers, now, customer, orderId, uploads,
                           uploadedFiles, order, res, failures, log>>

\* catch (error) { logger.error(..); if (uploadedFiles.length > 0)
\*   logger.warn(..); res.status(500).json(..) }
\* 'thrown' is the line the callee logged before it rethrew.
Catch(r, message, thrown) ==
    /\ log' = [log EXCEPT ![r] =
                 @ \o <<thrown>>
                   \o <<[level |-> "error",
                         message |-> "Erro durante processamento de upload",
                         error |-> message]>>
                   \o (IF Len(uploadedFiles[r]) > 0
                       THEN <<[level |-> "warn",
                               message |-> "Rollback necessario",
                               error |-> <<"", "">>]>>
                       ELSE <<>>)]
    /\ res' = [res EXCEPT ![r] = Some(Json500(message, orderId[r]))]
    /\ pc' = [pc EXCEPT ![r] = "done"]
    /\ failures' = [failures EXCEPT ![r] = @ + 1]

\* orderId = generateOrderId(); req.files.map(uploadToImageKit): every
\* upload is issued before the handler suspends on Promise.all
StartUploads(r, cust) ==
    \E id \in generateOrderId(now) :
        /\ now' = Timestamp(id)
        /\ customer' = [customer EXCEPT ![r] = Some(cust)]
        /\ orderId' = [orderId EXCEPT ![r] = Some(id)]
        /\ uploads' = [uploads EXCEPT ![r] =
                         [i \in 1..Len(req[r][1].files) |-> "pending"]]
        /\ calls' = Bump(calls, r, "upload", Len(req[r][1].files))
        /\ pc' = [pc EXCEPT ![r] = "uploading"]

Matching(email) == {k \in 1..Len(clientes) : clientes[k].Email = email}

First(S) == CHOOSE k \in S : \A m \in S : k <= m

\* existingCustomers.length > 0: return existingCustomers[0]
SelectFound(r) ==
    /\ pc[r] = "selecting"
    /\ Matching(req[r][1].email[1]) # {}
    /\ LET k == First(Matching(req[r][1].email[1]))
       IN StartUploads(r, [id |-> k, fields |-> clientes[k]])
    /\ UNCHANGED <<Config, statusReq, Providers, req, uploadedFiles, order, res,
                   failures, log>>

\* no match: base('Clientes').create(...)
SelectNotFound(r) ==
    /\ pc[r] = "selecting"
    /\ Matching(req[r][1].email[1]) = {}
    /\ calls' = Bump(calls, r, "createCustomer", 1)
    /\ pc' = [pc EXCEPT ![r] = "creatingCustomer"]
    /\ UNCHANGED <<Config, statusReq, Providers, now, req, customer, orderId, uploads,
                   uploadedFiles, order, res, failures, log>>

\* the select rejects: findOrCreateCustomer rethrows, the handler catches
SelectFail(r, cause) ==
    /\ pc[r] = "selecting"
    /\ Catch(r, <<"Falha ao processar dados do cliente: ", cause>>,
             [level |-> "error", message |-> "Erro ao encontrar/criar cliente",
              error |-> <<"", cause>>])
    /\ UNCHANGED <<Config, statusReq, Providers, now, req, customer, orderId, uploads,
                   uploadedFiles, order, calls>>

CustomerCreateOk(r) ==
    /\ pc[r] = "creatingCustomer"
    /\ LET fields == [Email |-> req[r][1].email[1], Nome |-> req[r][1].nome[1]]
       IN /\ clientes' = Append(clientes, fields)
          /\ StartUploads(r, [id |-> Len(clientes) + 1, fields |-> fields])
    /\ UNCHANGED <<Config, statusReq, pedidos, stored, req, uploadedFiles, order, res,
                   failures, log>>

CustomerCreateFail(r, cause) ==
    /\ pc[r] = "creatingCustomer"
    /\ Catch(r, <<"Falha ao processar dados do cliente: ", cause>>,
             [level |-> "error", message |-> "Erro ao encontrar/criar cliente",
              error |-> <<"", cause>>])
    /\ UNCHANGED <<Config, statusReq, Providers, now, req, customer, orderId, uploads,
                   uploadedFiles, order, calls>>

\* ------------------------------------------------------ uploadToImageKit
UploadTag == <<"upload", 0, 0>>

\* fileName = `${orderId}_${index}_${sanitizedName}`, by its three parts
FileNameOf(id, index, originalname) ==
    [orderId |-> id, index |-> index, name |-> sanitizeFileName(originalname)]

\* the arguments of imagekit.upload for the i-th file of request r
StoredFile(r, i) ==
    [fileId |-> <<r, i>>,
     fileName |-> FileNameOf(orderId[r][1], i - 1, req[r][1].files[i]),
     folder |-> "/mellow-signs/orders",
     tags |-> {orderId[r][1], UploadTag}]

\* what uploadToImageKit returns for it
UploadResult(r, i) ==
    [fileId |-> <<r, i>>, fileName |-> StoredFile(r, i).fileName,
     originalName |-> req[r][1].files[i]]

\* createOrder up to its await: const orderId = generateOrderId();
\* base('Pedidos').create(...)
StartCreateOrder(r) ==
    \E id \in generateOrderId(now) :
        /\ now' = Timestamp(id)
        /\ order' = [order EXCEPT ![r] = Some(id)]
        /\ calls' = Bump(calls, r, "createOrder", 1)
        /\ pc' = [pc EXCEPT ![r] = "creatingOrder"]

\* as UploadOk, had the handler gone on once no upload was left pending
UploadOk_last(r, i) ==
    /\ i \in DOMAIN uploads[r]
    /\ uploads[r][i] = "pending"
    /\ stored' = stored \cup {StoredFile(r, i)}
    /\ uploads' = [uploads EXCEPT ![r][i] = "ok"]
    /\ IF \A j \in DOMAIN uploads[r] : j # i => uploads[r][j] # "pending"
       THEN /\ uploadedFiles' = [uploadedFiles EXCEPT ![r] =
                                   [j \in DOMAIN uploads[r] |-> UploadResult(r, j)]]
            /\ StartCreateOrder(r)
       ELSE UNCHANGED <<uploadedFiles, now, order, calls, pc>>
    /\ UNCHANGED <<Config, statusReq, clientes, pedidos, req, customer, orderId,
                   res, failures, log>>

\* imagekit.upload resolves for file i.  When it is the last one and no
\* sibling was rejected, Promise.all resolves and the handler goes on to
\* createOrder in the same turn.
UploadOk(r, i) ==
    /\ i \in DOMAIN uploads[r]
    /\ uploads[r][i] = "pending"
    /\ stored' = stored \cup {StoredFile(r, i)}
    /\ uploads' = [uploads EXCEPT ![r][i] = "ok"]
    /\ IF pc[r] = "uploading" /\ \A j \in DOMAIN uploads[r] : j # i => uploads[r][j] = "ok"
       THEN /\ uploadedFiles' = [uploadedFiles EXCEPT ![r] =
                                   [j \in DOMAIN uploads[r] |-> UploadResult(r, j)]]
            /\ StartCreateOrder(r)
       ELSE UNCHANGED <<uploadedFiles, now, order, calls, pc>>
    /\ UNCHANGED <<Config, statusReq, clientes, pedidos, req, customer, orderId, res,
                   failures, log>>

\* as UploadFail, had the handler awaited Promise.allSettled
UploadFail_settled(r, i, cause) ==
    /\ i \in DOMAIN uploads[r]
    /\ uploads[r][i] = "pending"
    /\ uploads' = [uploads EXCEPT ![r][i] = "failed"]
    /\ log' = [log EXCEPT ![r] =
                 Append(@, [level |-> "error", message |-> "ImageKit upload failed",
                            error |-> <<"", cause>>])]
    /\ failures' = [failures EXCEPT ![r] = @ + 1]
    /\ UNCHANGED <<Config, statusReq, Providers, now, req, customer, orderId,
                   uploadedFiles, order, calls, res, pc>>

\* imagekit.upload rejects for file i: uploadToImageKit logs and rethrows.
\* The first rejection rejects Promise.all and the handler's catch runs in
\* the same turn; a later one finds the request already answered.
UploadFail(r, i, cause) ==
    /\ i \in DOMAIN uploads[r]
    /\ uploads[r][i] = "pending"
    /\ uploads' = [uploads EXCEPT ![r][i] = "failed"]
    /\ LET thrown == [level |-> "error", message |-> "ImageKit upload failed",
                      error |-> <<"", cause>>]
       IN IF pc[r] = "uploading"
          THEN Catch(r, <<"Upload falhou: ", cause>>, thrown)
          ELSE /\ log' = [log EXCEPT ![r] = Append(@, thrown)]
               /\ failures' = [failures EXCEPT ![r] = @ + 1]
               /\ UNCHANGED <<res, pc>>
    /\ UNCHANGED <<Config, statusReq, Providers, now, req, customer, orderId,
                   uploadedFiles, order, calls>>

\* ------------------------------------------------------------ createOrder
\* base('Pedidos').create resolves: createOrder returns and the handler
\* sends the 200 response
OrderCreateOk(r) ==
    /\ pc[r] = "creatingOrder"
    /\ pedidos' = Append(pedidos,
                         [ID_Pedido |-> order[r][1],
                          Cliente |-> customer[r][1].id,
                          Status |-> "Novo",
                          Ficheiros_Metadata |-> uploadedFiles[r],
                          Numero_de_Ficheiros |-> Len(uploadedFiles[r])])
    /\ res' = [res EXCEPT ![r] =
                 Some(Json200([orderId |-> order[r][1],
                               recordId |-> Len(pedidos) + 1,
                               filesCount |-> Len(uploadedFiles[r])],
                              customer[r][1], uploadedFiles[r]))]
    /\ pc' = [pc EXCEPT ![r] = "done"]
    /\ UNCHANGED <<Config, statusReq, clientes, stored, now, req, customer, orderId,
                   uploads, uploadedFiles, order, calls, failures, log>>

\* as OrderCreateFail, had the catch deleted the uploaded files
OrderCreateFail_rollback(r, cause) ==
    /\ pc[r] = "creatingOrder"
    /\ Catch(r, <<"Falha ao criar pedido no sistema: ", cause>>,
             [level |-> "error", message |-> "Erro ao criar pedido no Airtable",
              error |-> <<"", cause>>])
    /\ stored' = {f \in stored : f.fileId[1] # r}
    /\ calls' = Bump(calls, r, "delete", Len(uploadedFiles[r]))
    /\ UNCHANGED <<Config, statusReq, clientes, pedidos, now, req, customer, orderId,
                   uploads, uploadedFiles, order>>

\* base('Pedidos').create rejects: createOrder logs and rethrows
OrderCreateFail(r, cause) ==
    /\ pc[r] = "creatingOrder"
    /\ Catch(r, <<"Falha ao criar pedido no sistema: ", cause>>,
             [level |-> "error", message |-> "Erro ao criar pedido no Airtable",
              error |-> <<"", cause>>])
    /\ UNCHANGED <<Config, statusReq, Providers, now, req, customer, orderId, uploads,
                   uploadedFiles, order, calls>>

\* ---------------------------------------------------------- specification
Nomes == {Undefined, Some(<<>>), Some(SampleName)}

SampleEmails ==
    {Undefined, Some(<<>>), Some(SampleEmail), Some(<<"a", "@", "a">>)}

SampleFile == <<"a", "#", "#", ".", "a">>

SampleRequests == Requests(AuthHeaders, Nomes, SampleEmails, {SampleFile})

Next ==
    \/ \E q \in SampleRequests : Submit(1, q)
    \/ SelectFound(1)
    \/ SelectNotFound(1)
    \/ \E cause \in Causes : SelectFail(1, cause)
    \/ CustomerCreateOk(1)
    \/ \E cause \in Causes : CustomerCreateFail(1, cause)
    \/ \E i \in 1..MaxFiles : UploadOk(1, i)
    \/ \E i \in 1..MaxFiles : \E cause \in Causes : UploadFail(1, i, cause)
    \/ OrderCreateOk(1)
    \/ \E cause \in Causes : OrderCreateFail(1, cause)

Spec == Init /\ [][Next]_vars

\* ------------------------------------------------ GET /api/status/:orderId
UploadSteps == <<now, clientes, pedidos, stored, req, pc, customer, orderId,
                 uploads, uploadedFiles, order, res, calls, failures, log>>

\* every id generateOrderId can return within the bounds
OrderIds == {OrderIdOf(ts, rnd) : ts \in 0..MaxClock, rnd \in 0..MaxRand}

StatusJson503 ==
    [status |-> 503, success |-> FALSE, code |-> "SERVICE_UNAVAILABLE"]

StatusJson404 ==
    [status |-> 404, success |-> FALSE, code |-> "ORDER_NOT_FOUND"]

StatusJson500 ==
    [status |-> 500, success |-> FALSE, code |-> "STATUS_CHECK_FAILED"]

StatusJson200(rec) ==
    [status |-> 200, success |-> TRUE,
     data |-> [orderId |-> rec.ID_Pedido, status |-> rec.Status,
               numeroFicheiros |-> rec.Numero_de_Ficheiros,
               files |-> rec.Ficheiros_Metadata]]

MatchingOrders_byTimestamp(id) ==
    {k \in 1..Len(pedidos) : Timestamp(pedidos[k].ID_Pedido) = Timestamp(id)}

\* filterByFormula: `{ID Pedido} = "${orderId}"`
MatchingOrders(id) == {k \in 1..Len(pedidos) : pedidos[k].ID_Pedido = id}

\* the handler up to its await: 503 without Airtable, else the select
StatusSubmit(id) ==
    /\ statusReq.pc = "idle"
    /\ IF ~base
       THEN statusReq' = [statusReq EXCEPT !.pc = "done", !.orderId = Some(id),
                                           !.res = Some(StatusJson503)]
       ELSE statusReq' = [statusReq EXCEPT !.pc = "selecting",
                                           !.orderId = Some(id)]
    /\ UNCHANGED <<Config, UploadSteps>>

\* orders.length === 0
StatusNotFound ==
    /\ statusReq.pc = "selecting"
    /\ MatchingOrders(statusReq.orderId[1]) = {}
    /\ statusReq' = [statusReq EXCEPT !.pc = "done", !.res = Some(StatusJson404)]
    /\ UNCHANGED <<Config, UploadSteps>>

\* const order = orders[0]
StatusFound ==
    /\ statusReq.pc = "selecting"
    /\ MatchingOrders(statusReq.orderId[1]) # {}
    /\ statusReq' =
         [statusReq EXCEPT
            !.pc = "done",
            !.res = Some(StatusJson200(
                        pedidos[First(MatchingOrders(statusReq.orderId[1]))]))]
    /\ UNCHANGED <<Config, UploadSteps>>

\* the select rejects: catch (error) { res.status(500) }
StatusFail(cause) ==
    /\ statusReq.pc = "selecting"
    /\ statusReq' = [statusReq EXCEPT !.pc = "done", !.error = Some(cause),
                                       !.res = Some(StatusJson500)]
    /\ UNCHANGED <<Config, UploadSteps>>

NextStatus ==
    \/ \E q \in SampleRequests : Submit(1, q)
    \/ SelectFound(1)
    \/ SelectNotFound(1)
    \/ \E cause \in Causes : SelectFail(1, cause)
    \/ CustomerCreateOk(1)
    \/ \E cause \in Causes : CustomerCreateFail(1, cause)
    \/ \E i \in 1..MaxFiles : UploadOk(1, i)
    \/ \E i \in 1..MaxFiles : \E cause \in Causes : UploadFail(1, i, cause)
    \/ OrderCreateOk(1)
    \/ \E cause \in Causes : OrderCreateFail(1, cause)
    \/ \E id \in OrderIds : StatusSubmit(id)
    \/ StatusNotFound
    \/ StatusFound
    \/ \E cause \in Causes : StatusFail(cause)

SpecStatus == Init /\ [][NextStatus]_vars

\* The same handler, fed every email of at most MaxEmailLen characters
AllEmails == {Some(e) : e \in StringsUpTo(MaxEmailLen)}

EmailRequests == Requests({"valid"}, {Some(SampleName)}, AllEmails, {SampleFile})

NextEmail ==
    \/ \E q \in EmailRequests : Submit(1, q)
    \/ SelectFound(1)
    \/ SelectNotFound(1)
    \/ \E cause \in Causes : SelectFail(1, cause)
    \/ CustomerCreateOk(1)
    \/ \E cause \in Causes : CustomerCreateFail(1, cause)
    \/ \E i \in 1..MaxFiles : UploadOk(1, i)
    \/ \E i \in 1..MaxFiles : \E cause \in Causes : UploadFail(1, i, cause)
    \/ OrderCreateOk(1)
    \/ \E cause \in Causes : OrderCreateFail(1, cause)

SpecEmail == Init /\ [][NextEmail]_vars

\* The same handler, fed one file under every name of at most MaxNameLen
\* characters and under long names made by repeating those
NameChars == {"a", ".", "-", "_", "#"}

ShortNames == UNION {[1..k -> NameChars] : k \in 0..MaxNameLen}

Cycle(s, n) == [k \in 1..n |-> s[((k - 1) % Len(s)) + 1]]

LongLengths ==
    {SubstringLimit - 1, SubstringLimit, SubstringLimit + 1, 2 * SubstringLimit}

LongNames == {Cycle(s, n) : s \in ShortNames \ {<<>>}, n \in LongLengths}

NameRequests ==
    [auth : {"valid"}, nome : {Some(SampleName)}, email : {Some(SampleEmail)},
     files : {<<n>> : n \in ShortNames \cup LongNames}]

NextSanitize ==
    \/ \E q \in NameRequests : Submit(1, q)
    \/ SelectFound(1)
    \/ SelectNotFound(1)
    \/ \E cause \in Causes : SelectFail(1, cause)
    \/ CustomerCreateOk(1)
    \/ \E cause \in Causes : CustomerCreateFail(1, cause)
    \/ \E i \in 1..MaxFiles : UploadOk(1, i)
    \/ \E i \in 1..MaxFiles : \E cause \in Causes : UploadFail(1, i, cause)
    \/ OrderCreateOk(1)
    \/ \E cause \in Causes : OrderCreateFail(1, cause)

SpecSanitize == Init /\ [][NextSanitize]_vars

\* Two requests with the same email, handled at the same time
RaceRequests ==
    [auth : {"valid"}, nome : {Some(SampleName)}, email : {Some(SampleEmail)},
     files : {<<SampleFile>>}]

NextRace ==
    \E r \in Reqs :
        \/ \E q \in RaceRequests : Submit(r, q)
        \/ SelectFound(r)
        \/ SelectNotFound(r)
        \/ \E cause \in Causes : SelectFail(r, cause)
        \/ CustomerCreateOk(r)
        \/ \E cause \in Causes : CustomerCreateFail(r, cause)
        \/ \E i \in 1..MaxFiles : UploadOk(r, i)
        \/ \E i \in 1..MaxFiles : \E cause \in Causes : UploadFail(r, i, cause)
        \/ OrderCreateOk(r)
        \/ \E cause \in Causes : OrderCreateFail(r, cause)

SpecRace == Init /\ [][NextRace]_vars

\* ------------------------------------------------------------ properties
Received(r) == req[r] # <<>>
Answered(r) == res[r] # <<>>
Q(r) == req[r][1]
R(r) == res[r][1]
Configured == imagekit /\ base

FieldsPresent(q) == ~Falsy(q.nome) /\ ~Falsy(q.email)

\* the claim's "basic local@domain.tld pattern", stated without the regex:
\* no whitespace, exactly one "@", something before it, and after it a
\* "." that is neither the first nor the last character
LocalAtDomainDotTld(s) ==
    /\ \A k \in 1..Len(s) : s[k] \notin Whitespace
    /\ Cardinality({k \in 1..Len(s) : s[k] = "@"}) = 1
    /\ LET at == CHOOSE k \in 1..Len(s) : s[k] = "@"
       IN /\ at > 1
          /\ \E d \in (at + 2)..(Len(s) - 1) : s[d] = "."

ValidFields(q) == FieldsPresent(q) /\ LocalAtDomainDotTld(q.email[1])

NoCalls(r, kinds) == \A k \in kinds : calls[r][k] = 0

Logged(r, message) == \E k \in 1..Len(log[r]) : log[r][k].message = message

AllUploadsOk(r) ==
    /\ Len(uploads[r]) > 0
    /\ \A i \in DOMAIN uploads[r] : uploads[r][i] = "ok"

OwnFiles(r) == {f \in stored : f.fileId[1] = r}

\* C1 as stated: a request with non-empty nome, a pattern-valid email and
\* N >= 1 files, none of whose provider calls failed, is answered 200 with
\* filesCount = N.
C1_Original ==
    \A r \in Reqs :
        (pc[r] = "done" /\ ValidFields(Q(r)) /\ Len(Q(r).files) >= 1
            /\ failures[r] = 0)
        => (R(r).status = 200 /\ R(r).data.filesCount = Len(Q(r).files))

\* C1 amended: the same, for a request handled while both the ImageKit
\* client and the Airtable base are configured.
C1_UploadSucceeds ==
    \A r \in Reqs :
        (pc[r] = "done" /\ Configured /\ ValidFields(Q(r))
            /\ Len(Q(r).files) >= 1 /\ failures[r] = 0)
        => (R(r).status = 200 /\ R(r).data.filesCount = Len(Q(r).files))

C1_Witness ==
    \E r \in Reqs :
        /\ pc[r] = "done" /\ failures[r] = 0 /\ Answered(r)
        /\ R(r).status = 200
        /\ Len(Q(r).files) = MaxFiles
        /\ calls[r]["upload"] = MaxFiles

\* C2: once any upload of a request has failed, the request is answered
\* with 500 and no order-record creation was issued for it, whatever the
\* state of its other uploads.
C2_FailFast ==
    \A r \in Reqs :
        (\E i \in DOMAIN uploads[r] : uploads[r][i] = "failed")
        => (Answered(r) /\ R(r).status = 500 /\ calls[r]["createOrder"] = 0)

C2_Witness ==
    \E r \in Reqs : \E i, j \in DOMAIN uploads[r] :
        /\ uploads[r][i] = "failed"
        /\ uploads[r][j] = "ok"
        /\ Answered(r)

\* C3 as stated: a request with nome or email absent or empty is answered
\* 400 MISSING_REQUIRED_FIELDS and issues no upload and no tabular-store
\* call.
C3_Original ==
    \A r \in Reqs :
        (Received(r) /\ ~FieldsPresent(Q(r)))
        => /\ Answered(r)
           /\ R(r).status = 400
           /\ R(r).code = "MISSING_REQUIRED_FIELDS"
           /\ NoCalls(r, {"upload", "select", "createCustomer", "createOrder"})

\* C3 amended: such a request issues no upload and no tabular-store call,
\* and is answered at once: 400 MISSING_REQUIRED_FIELDS when both services
\* are configured, 503 SERVICES_NOT_CONFIGURED otherwise.
C3_MissingFields ==
    \A r \in Reqs :
        (Received(r) /\ ~FieldsPresent(Q(r)))
        => /\ Answered(r)
           /\ NoCalls(r, {"upload", "select", "createCustomer", "createOrder"})
           /\ IF Configured
              THEN R(r).status = 400 /\ R(r).code = "MISSING_REQUIRED_FIELDS"
              ELSE R(r).status = 503 /\ R(r).code = "SERVICES_NOT_CONFIGURED"

C3_Witness ==
    \E r \in Reqs :
        /\ Received(r) /\ Configured
        /\ Q(r).nome = Undefined
        /\ Q(r).email = Some(SampleEmail)
        /\ Len(Q(r).files) > 0
        /\ Answered(r) /\ R(r).status = 400

\* C4 as stated: a request whose nome and email are non-empty and whose
\* email does not match local@domain.tld is answered 400 INVALID_EMAIL,
\* with or without files.
C4_Original ==
    \A r \in Reqs :
        (Received(r) /\ FieldsPresent(Q(r))
            /\ ~LocalAtDomainDotTld(Q(r).email[1]))
        => (Answered(r) /\ R(r).status = 400 /\ R(r).code = "INVALID_EMAIL")

\* C4 amended: the same, for a request handled while both services are
\* configured.
C4_InvalidEmail ==
    \A r \in Reqs :
        (Received(r) /\ Configured /\ FieldsPresent(Q(r))
            /\ ~LocalAtDomainDotTld(Q(r).email[1]))
        => (Answered(r) /\ R(r).status = 400 /\ R(r).code = "INVALID_EMAIL")

C4_Witness ==
    \E r \in Reqs :
        /\ Received(r) /\ Configured
        /\ Q(r).email = Some(<<"a", "@", "a", "a">>)
        /\ Len(Q(r).files) > 0
        /\ Answered(r) /\ R(r).code = "INVALID_EMAIL"

\* C5 as stated: a request with non-empty nome, a pattern-valid email and
\* no file is answered 400 NO_FILES.
C5_Original ==
    \A r \in Reqs :
        (Received(r) /\ ValidFields(Q(r)) /\ Len(Q(r).files) = 0)
        => (Answered(r) /\ R(r).status = 400 /\ R(r).code = "NO_FILES")

\* C5 amended: the same, for a request handled while both services are
\* configured.
C5_NoFiles ==
    \A r \in Reqs :
        (Received(r) /\ Configured /\ ValidFields(Q(r)) /\ Len(Q(r).files) = 0)
        => (Answered(r) /\ R(r).status = 400 /\ R(r).code = "NO_FILES")

C5_Witness ==
    \E r \in Reqs :
        /\ Received(r) /\ Configured /\ ValidFields(Q(r))
        /\ Len(Q(r).files) = 0
        /\ Answered(r) /\ R(r).code = "NO_FILES"

\* C6: a request without Authorization header is answered 401, one with a
\* mismatching token 403, and neither reaches validation, upload or
\* persistence.
C6_BearerToken ==
    \A r \in Reqs :
        (Received(r) /\ Q(r).auth # "valid")
        => /\ Answered(r)
           /\ R(r).status = (IF Q(r).auth = "absent" THEN 401 ELSE 403)
           /\ NoCalls(r, CallKinds)

\* C7: on a successful request the orderId of the 200 response and of the
\* order record is the orderId in the storage key and tag of each of the
\* request's files.
C7_OneOrderId ==
    \A r \in Reqs :
        (Answered(r) /\ R(r).status = 200)
        => /\ \E k \in 1..Len(pedidos) :
                 /\ k = R(r).data.recordId
                 /\ pedidos[k].ID_Pedido = R(r).data.orderId
           /\ \A f \in OwnFiles(r) :
                 /\ f.fileName.orderId = R(r).data.orderId
                 /\ R(r).data.orderId \in f.tags

\* C8: when all uploads succeeded and the order creation failed, the
\* response is 500, the creation was issued exactly once, no delete was
\* issued and every file of the request is in the object store.
C8_PersistFailure ==
    \A r \in Reqs :
        (AllUploadsOk(r) /\ Logged(r, "Erro ao criar pedido no Airtable"))
        => /\ Answered(r)
           /\ R(r).status = 500
           /\ calls[r]["createOrder"] = 1
           /\ calls[r]["delete"] = 0
           /\ \A i \in DOMAIN uploads[r] : StoredFile(r, i) \in stored
           /\ Cardinality(OwnFiles(r)) = Len(Q(r).files)

C8_Witness ==
    \E r \in Reqs :
        /\ AllUploadsOk(r) /\ Len(uploads[r]) = MaxFiles
        /\ Logged(r, "Erro ao criar pedido no Airtable")
        /\ Answered(r)

\* C9: on a request whose uploads and order creation succeeded the
\* notifier was invoked exactly once and the response is 200.
C9_NotifyOnce ==
    \A r \in Reqs :
        (AllUploadsOk(r) /\ Answered(r)
            /\ ~Logged(r, "Erro ao criar pedido no Airtable"))
        => (R(r).status = 200 /\ calls[r]["notify"] = 1)

\* the id a failure response is to carry: the handler's, or the sentinel
FailureOrderId(r) == IF orderId[r] = Undefined THEN NA ELSE orderId[r][1]

\* C10 as stated: every failure response carries an orderId field, the
\* generated id if there is one and the sentinel otherwise.
C10_Original ==
    \A r \in Reqs :
        (Answered(r) /\ R(r).status \in {400, 500})
        => ("orderId" \in DOMAIN R(r) /\ R(r).orderId = FailureOrderId(r))

\* C10 amended: every 500 response carries an orderId field, the id the
\* handler generated if it had generated one and 'N/A' otherwise; the 400
\* and 503 responses carry no orderId field.
C10_FailureOrderId ==
    \A r \in Reqs :
        Answered(r) =>
            /\ R(r).status = 500
                => ("orderId" \in DOMAIN R(r) /\ R(r).orderId = FailureOrderId(r))
            /\ R(r).status \in {400, 503} => "orderId" \notin DOMAIN R(r)

C10_Witness ==
    \E r \in Reqs :
        /\ Answered(r) /\ R(r).status = 500
        /\ orderId[r] = Undefined
        /\ R(r).orderId = NA

\* what the status handler answers on the step that ends it
StatusAnswers == statusReq.pc = "selecting" /\ statusReq'.pc = "done"

\* the store holds a record whose identifier is the one asked for
OrderExists == \E k \in 1..Len(pedidos) : pedidos[k].ID_Pedido = statusReq.orderId[1]

StatusOrder ==
    pedidos[CHOOSE k \in 1..Len(pedidos) : pedidos[k].ID_Pedido = statusReq.orderId[1]]

\* C11 as stated: with the store configured, the status request is answered
\* 200 with the stored record exactly when a record with that identifier
\* exists, and 404 ORDER_NOT_FOUND when none does; 503 when unconfigured.
C11_Original ==
    [][/\ (statusReq.pc = "idle" /\ statusReq'.pc # "idle" /\ ~base)
            => statusReq'.res = Some(StatusJson503)
       /\ StatusAnswers =>
            IF OrderExists
            THEN /\ statusReq'.res[1].status = 200
                 /\ statusReq'.res[1].data.orderId = statusReq.orderId[1]
                 /\ statusReq'.res[1].data.status = StatusOrder.Status
                 /\ statusReq'.res[1].data.files = StatusOrder.Ficheiros_Metadata
            ELSE /\ statusReq'.res[1].status = 404
                 /\ statusReq'.res[1].code = "ORDER_NOT_FOUND"]_vars

\* C11 amended: the same when the store lookup succeeds; a lookup that
\* fails is answered 500 STATUS_CHECK_FAILED whether or not the record
\* exists.
C11_StatusLookup ==
    [][/\ (statusReq.pc = "idle" /\ statusReq'.pc # "idle" /\ ~base)
            => statusReq'.res = Some(StatusJson503)
       /\ (statusReq.pc = "idle" /\ statusReq'.pc # "idle" /\ base)
            => statusReq'.res = Undefined
       /\ StatusAnswers =>
            IF statusReq'.error # Undefined
            THEN /\ statusReq'.res[1].status = 500
                 /\ statusReq'.res[1].code = "STATUS_CHECK_FAILED"
            ELSE IF OrderExists
            THEN /\ statusReq'.res[1].status = 200
                 /\ statusReq'.res[1].data.orderId = statusReq.orderId[1]
                 /\ statusReq'.res[1].data.status = StatusOrder.Status
                 /\ statusReq'.res[1].data.files = StatusOrder.Ficheiros_Metadata
            ELSE /\ statusReq'.res[1].status = 404
                 /\ statusReq'.res[1].code = "ORDER_NOT_FOUND"]_vars

C11_Witness ==
    /\ statusReq.pc = "done"
    /\ statusReq.res[1].status = 404
    /\ Len(pedidos) > 0
    /\ pedidos[1].ID_Pedido # statusReq.orderId[1]
    /\ Timestamp(pedidos[1].ID_Pedido) = Timestamp(statusReq.orderId[1])

IsDigit(c) == \E k \in 1..Len(DecimalDigits) : DecimalDigits[k] = c

\* the ids generated so far for request r
Generated(r) == {o[1] : o \in {x \in {orderId[r], order[r]} : x # Undefined}}

\* C12: every generated id is made of decimal digits only, the timestamp
\* of at least 13 digits followed by exactly 4 digits.
C12_IdFormat ==
    \A r \in Reqs : \A id \in Generated(r) :
        LET text == OrderIdText(id)
            stamp == DateNowText(Timestamp(id))
        IN /\ \A k \in 1..Len(text) : IsDigit(text[k])
           /\ Len(stamp) >= 13
           /\ Len(text) = Len(stamp) + 4
           /\ SubSeq(text, 1, Len(stamp)) = stamp

\* [A-Za-z0-9._-] over the characters of the model
AllowedInName == {"a", ".", "-", "_"}

\* the name the client gave the stored file f
OriginalName(f) == req[f.fileId[1]][1].files[f.fileId[2]]

\* C13: the sanitized name of every stored file is a fixed point of the
\* sanitization, is at most 100 characters long and has only characters
\* of [A-Za-z0-9._-].
C13_Sanitize ==
    \A f \in stored :
        LET out == f.fileName.name
        IN /\ sanitizeFileName(out) = out
           /\ Len(out) <= 100
           /\ \A k \in 1..Len(out) : out[k] \in AllowedInName

C13_Witness ==
    \E f \in stored :
        /\ Len(OriginalName(f)) > 100
        /\ \E k \in 1..Len(OriginalName(f)) : OriginalName(f)[k] = "#"
        /\ Len(f.fileName.name) = 100
        /\ f.fileName.name # SubSeq(OriginalName(f), 1, 100)

\* request r saw no customer with its email and created one
CreatedCustomer(r) ==
    /\ calls[r]["createCustomer"] = 1
    /\ customer[r] # Undefined

\* C14: two concurrent requests with the same email never both observe
\* 'customer not found' and both create a customer record for it.
C14_NoLookupRace ==
    \A r1 \in Reqs : \A r2 \in Reqs \ {r1} :
        (Received(r1) /\ Received(r2) /\ Q(r1).email = Q(r2).email)
        => ~(/\ CreatedCustomer(r1)
             /\ CreatedCustomer(r2)
             /\ customer[r1][1].id # customer[r2][1].id
             /\ clientes[customer[r1][1].id].Email = clientes[customer[r2][1].id].Email)

FailureObserved(r) == \E i \in DOMAIN uploads[r] : uploads[r][i] = "failed"

Changed(r) == {j \in DOMAIN uploads[r] : uploads'[r][j] # uploads[r][j]}

\* C15: the step on which the first upload of a request fails answers the
\* request with 500 and touches no sibling upload; from then on the
\* response is never replaced, no order creation is issued, and every
\* upload still in flight can complete, successfully or not.
C15_SiblingsIgnored ==
    [][\A r \in Reqs :
         /\ (~FailureObserved(r) /\ FailureObserved(r)')
              => /\ res[r] = <<>>
                 /\ res'[r] # <<>>
                 /\ res'[r][1].status = 500
                 /\ Cardinality(Changed(r)) = 1
         /\ FailureObserved(r)
              => /\ res'[r] = res[r]
                 /\ pc'[r] = "done"
                 /\ calls'[r]["createOrder"] = 0
                 /\ \A j \in DOMAIN uploads[r] :
                        uploads[r][j] = "pending"
                        => /\ ENABLED UploadOk(r, j)
                           /\ \A cause \in Causes : ENABLED UploadFail(r, j, cause)]_vars

C15_Witness ==
    \E r \in Reqs : \E i, j \in DOMAIN uploads[r] :
        /\ uploads[r][i] = "failed"
        /\ uploads[r][j] = "pending"
        /\ Answered(r)
        /\ R(r).status = 500

\* C16: when a request is answered 500 after at least one of its files
\* was stored, the orphaned-files warning has been logged for it by then,
\* whether a sibling upload or the order creation failed.
C16_OrphanWarning ==
    [][\A r \in Reqs :
         (/\ res[r] = <<>>
          /\ res'[r] # <<>>
          /\ res'[r][1].status = 500
          /\ OwnFiles(r) # {})
         => \E k \in 1..Len(log'[r]) :
               /\ log'[r][k].level = "warn"
               /\ log'[r][k].message = "Rollback necessario"]_vars

\* C17: the error text of a 500 response does not depend on the cause the
\* provider reported: whatever the cause, the text is the one the same
\* failure gives with any other cause.
C17_GenericError ==
    \A r \in Reqs :
        (Answered(r) /\ R(r).status = 500)
        => \A cause \in Causes : R(r).error = <<R(r).error[1], cause>>

====
